---- MODULE Spec2Model ----
(***************************************************************************)
(* Model of the cleaning-task bot: the SQLite task store of                *)
(* src/src/database.py, the due-date engine and the frequency parser of    *)
(* src/src/utils.py, and the chat dialogues of src/src/handlers.py.        *)
(*                                                                         *)
(* Time is counted in whole days.  A timestamp is a natural number; the    *)
(* text the store keeps for it (datetime.isoformat) is the pair            *)
(* <<"iso", t>>, read back with fromisoformat.                             *)
(***************************************************************************)
EXTENDS Integers, Sequences, FiniteSets, TLC

VARIABLES
    tasks,      \* the rows of the tasks table
    completed_tasks,  \* the rows of the completed_tasks table, in id order
    now,        \* the clock, datetime.utcnow()
    last,       \* the last direct call of the store that returned, with the
                \* arguments given when it was add_task_db run alone
    call,       \* per caller, the add_task_db call in progress
    form,       \* how the text given to the frequency parser was made
    text,       \* the text given to the frequency parser
    parsed,     \* what the frequency parser returned for it
    rooms,      \* the lines of rooms.txt
    conv,       \* per user, the state of each ConversationHandler
    user_data,  \* per user, context.user_data
    reply       \* the bot's answer to the last message

storeVars == <<tasks, completed_tasks, now, last, call>>
parseVars == <<form, text, parsed>>
botVars == <<rooms, conv, user_data, reply>>
vars == <<tasks, completed_tasks, now, last, call, form, text, parsed, rooms,
          conv, user_data, reply>>

----------------------------------------------------------------------------
(* Bounds of the model *)

\* number of ids the allocator draws from (the source draws from 900 ids)
NumIds == 2
\* the clock stops advancing at this day
MaxTime == 2
\* the largest number written in a frequency text
MaxN == 11
\* the longest run of whitespace between the number and the unit
MaxWs == 1
\* the longest arbitrary text given to the frequency parser
MaxRaw == 2

(* Program constants *)

ID_MIN == 100
ID_MAX == ID_MIN + NumIds - 1
MaxAttempts == 100
UnpackArity == 6

\* arguments the callers of the store pass
Names == {"Vacuum"}
Freqs == {0, 1, 2}
DefaultRoom == "Kitchen"
DefaultNotes == ""
DefaultPoints == 1
Callers == {1, 2}

Times == 0..MaxTime

----------------------------------------------------------------------------
(* datetime <-> ISO text *)

isoformat(t) == <<"iso", t>>
fromisoformat(s) == s[2]

----------------------------------------------------------------------------
(* The tasks table: a set of rows, one record per row *)

IdsOf(T) == {r.id : r \in T}

\* the tuple a "SELECT id, name, frequency_days, last_done, room, notes,
\* points" query returns for a row
SelectCols(r) ==
    <<r.id, r.name, r.frequency_days, r.last_done, r.room, r.notes, r.points>>

RECURSIVE OrderById(_)
OrderById(T) ==
    IF T = {} THEN <<>>
    ELSE LET r == CHOOSE x \in T : \A y \in T : x.id <= y.id
         IN <<r>> \o OrderById(T \ {r})

\* random.randint(100, 999)
randint == ID_MIN..ID_MAX

\* _generate_unique_id, given the ids read from the table: attempt k of the
\* loop is reached when the k draws before it all hit an existing id, and
\* returns the value it draws when that is not an existing id
\* mutant: the loop goes on while a free id remains
Reached_Scan(existing_ids, k) == k = 0 \/ randint \subseteq existing_ids

Reached(existing_ids, k) == k = 0 \/ randint \cap existing_ids # {}

\* mutant: the drawn value is returned without the existence check
Attempt_NoCheck(existing_ids, k) ==
    IF Reached(existing_ids, k)
    THEN {[exc |-> "none", id |-> new_id, draws |-> k + 1] : new_id \in randint}
    ELSE {}

Attempt(existing_ids, k) ==
    IF Reached(existing_ids, k)
    THEN {[exc |-> "none", id |-> new_id, draws |-> k + 1] :
             new_id \in randint \ existing_ids}
    ELSE {}

\* mutant: the last drawn value is returned when the attempts run out
generate_unique_id_NoRaise(T) ==
    LET existing_ids == IdsOf(T)
    IN UNION {Attempt(existing_ids, k) : k \in 0..(MaxAttempts - 1)}
       \cup (IF Reached(existing_ids, MaxAttempts)
             THEN {[exc |-> "none", id |-> new_id, draws |-> MaxAttempts] :
                      new_id \in randint}
             ELSE {})

generate_unique_id(T) ==
    LET existing_ids == IdsOf(T)
    IN UNION {Attempt(existing_ids, k) : k \in 0..(MaxAttempts - 1)}
       \cup (IF Reached(existing_ids, MaxAttempts)
             THEN {[exc |-> "RuntimeError", id |-> 0, draws |-> MaxAttempts]}
             ELSE {})

\* what add_task_db sees of a call of _generate_unique_id
Allocations(T) == {[exc |-> g.exc, id |-> g.id] : g \in generate_unique_id(T)}

\* mutant: the insert does not enforce the primary key
InsertRow_NoKey(T, row) == [exc |-> "none", tasks |-> T \cup {row}]

\* INSERT INTO tasks ...: id is the PRIMARY KEY
InsertRow(T, row) ==
    IF row.id \in IdsOf(T)
    THEN [exc |-> "IntegrityError", tasks |-> T]
    ELSE [exc |-> "none", tasks |-> T \cup {row}]

\* mutant: the notes and the points are not written, the defaults are
NewRow_Defaults(task_id, name, freq_days, room, notes, points, t) ==
    [id |-> task_id, name |-> name, frequency_days |-> freq_days,
     last_done |-> isoformat(t), room |-> room, notes |-> "", points |-> 1]

NewRow(task_id, name, freq_days, room, notes, points, t) ==
    [id |-> task_id, name |-> name, frequency_days |-> freq_days,
     last_done |-> isoformat(t), room |-> room, notes |-> notes,
     points |-> points]

list_tasks_db(T, room) ==
    LET sel == IF room # "" THEN {r \in T : r.room = room} ELSE T
        ord == OrderById(sel)
    IN [i \in 1..Len(ord) |-> SelectCols(ord[i])]

\* None is modelled as the empty tuple
get_task_db(T, task_id) ==
    IF \E r \in T : r.id = task_id
    THEN SelectCols(CHOOSE r \in T : r.id = task_id)
    ELSE <<>>

\* mutant: the statement deletes the row
SetLastDone_Delete(T, task_id, when) == {r \in T : r.id # task_id}

SetLastDone(T, task_id, when) ==
    {IF r.id = task_id THEN [r EXCEPT !.last_done = isoformat(when)] ELSE r :
        r \in T}

\* mutant: every column name is accepted
AllowedFields_All ==
    {"name", "frequency_days", "room", "notes", "points", "id", "last_done"}

AllowedFields == {"name", "frequency_days", "room", "notes", "points"}

\* mutant: the UPDATE has no WHERE clause
SetField_NoWhere(T, task_id, field, value) ==
    IF field \notin AllowedFields
    THEN [exc |-> "ValueError", tasks |-> T]
    ELSE [exc |-> "none", tasks |-> {[r EXCEPT ![field] = value] : r \in T}]

SetField(T, task_id, field, value) ==
    IF field \notin AllowedFields
    THEN [exc |-> "ValueError", tasks |-> T]
    ELSE [exc |-> "none",
          tasks |-> {IF r.id = task_id THEN [r EXCEPT ![field] = value] ELSE r :
                        r \in T}]

DeleteRow(T, task_id) == {r \in T : r.id # task_id}

----------------------------------------------------------------------------
(* Text: a string is the sequence of its characters *)

Whitespace == {" ", "\t", "\n"}
DigitChars == <<"0", "1", "2", "3", "4", "5", "6", "7", "8", "9">>
Digit == {DigitChars[i] : i \in 1..10}
UpperChars == <<"A", "B", "C", "D", "E", "F", "G", "H", "I", "J", "K", "L", "M",
                "N", "O", "P", "Q", "R", "S", "T", "U", "V", "W", "X", "Y", "Z">>
LowerChars == <<"a", "b", "c", "d", "e", "f", "g", "h", "i", "j", "k", "l", "m",
                "n", "o", "p", "q", "r", "s", "t", "u", "v", "w", "x", "y", "z">>

LowerChar(c) ==
    IF \E i \in 1..26 : UpperChars[i] = c
    THEN LowerChars[CHOOSE i \in 1..26 : UpperChars[i] = c]
    ELSE c

\* mutant: the text is not lower-cased
lower_Keep(s) == s

\* str.lower()
lower(s) == [i \in 1..Len(s) |-> LowerChar(s[i])]

\* str.strip()
strip(s) ==
    LET keep == {i \in 1..Len(s) : s[i] \notin Whitespace}
    IN IF keep = {} THEN <<>>
       ELSE SubSeq(s, CHOOSE i \in keep : \A j \in keep : i <= j,
                      CHOOSE i \in keep : \A j \in keep : i >= j)

\* int() of a run of digits
RECURSIVE int(_)
int(s) ==
    IF s = <<>> THEN 0
    ELSE 10 * int(SubSeq(s, 1, Len(s) - 1))
         + ((CHOOSE i \in 1..10 : DigitChars[i] = s[Len(s)]) - 1)

\* re.fullmatch(r"\d+", s)
FullMatchDigits(s) == Len(s) > 0 /\ \A i \in 1..Len(s) : s[i] \in Digit

\* the length of the longest run of digits, and of whitespace, that s starts with
RECURSIVE RunLen(_, _)
RunLen(s, class) ==
    IF s # <<>> /\ Head(s) \in class THEN 1 + RunLen(Tail(s), class) ELSE 0

\* re.match(r"^(\d+)\s*(u1|u2|...)$", s): \d+ and \s* take the whole runs,
\* since no unit starts with a digit or with whitespace; $ also matches
\* before a newline that ends the text
\* mutant: any text may follow the number
ReMatch_AnyUnit(s, units) == RunLen(s, Digit) >= 1

ReMatch(s, units) ==
    LET nd == RunLen(s, Digit)
        after == SubSeq(s, nd + 1, Len(s))
        rest == SubSeq(after, RunLen(after, Whitespace) + 1, Len(after))
    IN nd >= 1 /\ \E u \in units : rest = u \/ rest = u \o <<"\n">>

Group1(s) == SubSeq(s, 1, RunLen(s, Digit))

DayUnits == {<<"d">>, <<"d", "a", "y">>, <<"d", "a", "y", "s">>}
WeekUnits == {<<"w">>, <<"w", "e", "e", "k">>, <<"w", "e", "e", "k", "s">>}
MonthUnits == {<<"m">>, <<"m", "o", "n", "t", "h">>,
               <<"m", "o", "n", "t", "h", "s">>}

Days(n) == [exc |-> "none", days |-> n]

\* mutant: a text of no grammar counts as 0 days
parse_frequency_to_days_Zero(txt) ==
    LET s == lower(strip(txt))
    IN IF FullMatchDigits(s) THEN Days(int(s))
       ELSE IF ReMatch(s, DayUnits) THEN Days(int(Group1(s)))
       ELSE IF ReMatch(s, WeekUnits) THEN Days(int(Group1(s)) * 7)
       ELSE IF ReMatch(s, MonthUnits) THEN Days(int(Group1(s)) * 30)
       ELSE Days(0)

parse_frequency_to_days(txt) ==
    LET s == lower(strip(txt))
    IN IF FullMatchDigits(s) THEN Days(int(s))
       ELSE IF ReMatch(s, DayUnits) THEN Days(int(Group1(s)))
       ELSE IF ReMatch(s, WeekUnits) THEN Days(int(Group1(s)) * 7)
       ELSE IF ReMatch(s, MonthUnits) THEN Days(int(Group1(s)) * 30)
       ELSE IF ReMatch(s, {<<"d">>, <<"w">>, <<"m">>})
            THEN LET num == int(Group1(s))
                     unit == s[Len(s)]
                 IN IF unit = "d" THEN Days(num)
                    ELSE IF unit = "w" THEN Days(num * 7)
                    ELSE Days(num * 30)
       ELSE [exc |-> "ValueError", days |-> 0]

----------------------------------------------------------------------------
(* Due-date engine *)

next_due_text(last_done_iso, freq_days) ==
    LET nd == fromisoformat(last_done_iso) + freq_days
    IN <<nd, <<"UTC", nd>>>>

\* the rows of the list that the loop of tasks_due_now appends
RECURSIVE DueLoop(_, _)
DueLoop(rows, t) ==
    IF rows = <<>> THEN <<>>
    ELSE LET row == Head(rows)
             nd == next_due_text(row[4], row[3])[1]
         IN (IF nd <= t
             THEN <<<<row[1], row[2], row[3], row[4], row[5], row[6], nd>>>>
             ELSE <<>>) \o DueLoop(Tail(rows), t)

\* tasks_due_now at clock value t: unpacking a row into UnpackArity names
\* raises ValueError when the row has another number of columns
tasks_due_now(T, room, t) ==
    LET rows == list_tasks_db(T, room)
    IN IF \E i \in 1..Len(rows) : Len(rows[i]) # UnpackArity
       THEN [exc |-> "ValueError", due |-> <<>>]
       ELSE [exc |-> "none", due |-> DueLoop(rows, t)]

----------------------------------------------------------------------------
(* State *)

\* A conversation is keyed by chat and user, context.user_data by user alone.
\* "ann", "eve", "mia" and "bob" are these users in their private chats,
\* "ann2" is ann in a second chat.
Users == {"ann", "eve", "mia"}
ChatKeys == {"ann", "ann2", "bob"}
Keys == Users \cup ChatKeys
UserOf(k) == IF k = "ann2" THEN "ann" ELSE k
\* user.username; eve has none
Username ==
    [k \in Keys |->
        IF UserOf(k) = "ann" THEN <<"A", "n", "n">>
        ELSE IF k = "bob" THEN <<"B", "o", "b">>
        ELSE IF k = "mia" THEN <<"M", "i", "a">>
        ELSE <<>>]
\* the names of ALLOWED_USERNAMES, stripped and lower-cased
ALLOWED_USERS == {<<"a", "n", "n">>, <<"b", "o", "b">>}

NoReply == [to |-> "", msg |-> "", exc |-> "none"]
NoConv == [add |-> "END", done |-> "END", edit |-> "END"]
NoData == [k \in {} |-> <<>>]
IdleBot ==
    /\ conv = [k \in Keys |-> NoConv]
    /\ user_data = [u \in {UserOf(k) : k \in Keys} |-> NoData]
    /\ reply = NoReply

NoForm == [kind |-> "none", n |-> 0, unit |-> <<>>]
NotParsed == [exc |-> "pending", days |-> 0]
NoCall == [pc |-> "idle", task_id |-> 0, name |-> "", freq_days |-> 0]

Init ==
    /\ tasks = {}
    /\ completed_tasks = <<>>
    /\ now = 0
    /\ last = [op |-> "init", id |-> 0, exc |-> "none", at |-> 0]
    /\ call = [c \in Callers |-> NoCall]
    /\ form = NoForm /\ text = <<>> /\ parsed = NotParsed
    /\ rooms = <<>> /\ IdleBot

\* the clock advances
Tick ==
    /\ now < MaxTime
    /\ now' = now + 1
    /\ UNCHANGED <<completed_tasks, tasks, last, call, parseVars, botVars>>

\* add_task_db(name, freq_days, room, notes, points), run without
\* interruption
add_task_db_all(name, freq_days, room, notes, points) ==
    \E g \in Allocations(tasks) :
        LET ins == InsertRow(tasks, NewRow(g.id, name, freq_days, room, notes,
                                           points, now))
        IN /\ tasks' = IF g.exc = "none" THEN ins.tasks ELSE tasks
           /\ last' = [op |-> "add_task_db", id |-> g.id,
                       exc |-> IF g.exc = "none" THEN ins.exc ELSE g.exc,
                       at |-> now,
                       args |-> <<name, freq_days, room, notes, points>>]
           /\ UNCHANGED <<completed_tasks, now, call, parseVars, botVars>>

update_task_last_done(task_id, when) ==
    /\ tasks' = SetLastDone(tasks, task_id, when)
    /\ last' = [op |-> "update_task_last_done", id |-> task_id,
                exc |-> "none", at |-> now]
    /\ UNCHANGED <<completed_tasks, now, call, parseVars, botVars>>

update_task_field(task_id, field, value) ==
    LET upd == SetField(tasks, task_id, field, value)
    IN /\ tasks' = upd.tasks
       /\ last' = [op |-> "update_task_field", id |-> task_id,
                   exc |-> upd.exc, at |-> now]
       /\ UNCHANGED <<completed_tasks, now, call, parseVars, botVars>>

remove_task_db(task_id) ==
    /\ tasks' = DeleteRow(tasks, task_id)
    /\ last' = [op |-> "remove_task_db", id |-> task_id, exc |-> "none",
                at |-> now]
    /\ UNCHANGED <<completed_tasks, now, call, parseVars, botVars>>

\* add_task_db(name, freq_days, room), with the defaults of notes and points
add_task_db(name, freq_days) ==
    add_task_db_all(name, freq_days, DefaultRoom, DefaultNotes, DefaultPoints)

FieldInputs == {<<"frequency_days", f>> : f \in Freqs}

Next ==
    \/ Tick
    \/ \E name \in Names, freq_days \in Freqs : add_task_db(name, freq_days)
    \/ \E task_id \in randint, when \in Times :
           when <= now /\ update_task_last_done(task_id, when)
    \/ \E task_id \in randint, fv \in FieldInputs :
           update_task_field(task_id, fv[1], fv[2])
    \/ \E task_id \in randint : remove_task_db(task_id)

Spec == Init /\ [][Next]_vars

\* the clock keeps advancing, up to the last clock value of the model
SpecLive == Spec /\ WF_vars(Tick)

----------------------------------------------------------------------------
(* Properties of the store and of the due view, checked under Spec *)

RowOf(T, task_id) == CHOOSE r \in T : r.id = task_id
IsDue(r, t) == fromisoformat(r.last_done) + r.frequency_days <= t
DueIds(T, t) ==
    LET res == tasks_due_now(T, "", t)
    IN {res.due[i][1] : i \in 1..Len(res.due)}
ListedIds(T) ==
    LET rows == list_tasks_db(T, "")
    IN {rows[i][1] : i \in 1..Len(rows)}
Created == last.op = "add_task_db" /\ last.exc = "none"
\* a call of add_task_db returns in this step
AddReturned == last'.op = "add_task_db" /\ last' # last

\* C1: in every state, tasks_due_now without a room filter returns exactly
\* the stored tasks whose last_done + frequency_days days is at or before
\* the clock value.
C1_DueExactly ==
    /\ tasks_due_now(tasks, "", now).exc = "none"
    /\ DueIds(tasks, now) = {r.id : r \in {x \in tasks : IsDue(x, now)}}

\* C2: right after add_task_db created a task, its last_done is the creation
\* time, and tasks_due_now does not return it at the creation time nor at any
\* time before last_done + frequency_days days.
C2_NewTaskNotDue ==
    Created =>
        LET r == RowOf(tasks, last.id)
        IN /\ r.last_done = isoformat(last.at)
           /\ (now = last.at \/ now < last.at + r.frequency_days) =>
                  /\ tasks_due_now(tasks, "", now).exc = "none"
                  /\ last.id \notin DueIds(tasks, now)

\* C3: marking a due task done at the current time sets its last_done to that
\* time, keeps it stored with its name and frequency, and tasks_due_now
\* computed at that time no longer returns it.
C3_DoneNotDue ==
    [][\A task_id \in randint :
          (/\ update_task_last_done(task_id, now)
           /\ task_id \in IdsOf(tasks)
           /\ IsDue(RowOf(tasks, task_id), now))
          => /\ task_id \in IdsOf(tasks')
             /\ RowOf(tasks', task_id) =
                    [RowOf(tasks, task_id) EXCEPT !.last_done = isoformat(now)]
             /\ tasks_due_now(tasks', "", now').exc = "none"
             /\ task_id \notin DueIds(tasks', now')]_vars

\* C4: after remove_task_db(id) on a stored task, get_task_db(id) is None,
\* list_tasks_db and tasks_due_now no longer return the task, and every other
\* stored task is unchanged.
C4_RemovedGone ==
    [][\A task_id \in randint :
          (remove_task_db(task_id) /\ task_id \in IdsOf(tasks))
          => /\ get_task_db(tasks', task_id) = <<>>
             /\ task_id \notin ListedIds(tasks')
             /\ tasks_due_now(tasks', "", now').exc = "none"
             /\ task_id \notin DueIds(tasks', now')
             /\ tasks' = {r \in tasks : r.id # task_id}]_vars

\* C5: a call of add_task_db that runs alone and gets an id from
\* _generate_unique_id gets one in [100, 999] that no stored task holds, and
\* stores one more task, so that the stored ids stay pairwise distinct.
C5_FreshId ==
    [][(AddReturned /\ last'.exc # "RuntimeError")
       => /\ last'.id >= 100 /\ last'.id <= 999
          /\ last'.id \notin IdsOf(tasks)
          /\ last'.exc = "none"
          /\ Cardinality(tasks') = Cardinality(tasks) + 1
          /\ Cardinality(IdsOf(tasks')) = Cardinality(tasks')]_vars

C5_Witness == Created /\ Cardinality(tasks) >= 2 /\ last.id \in IdsOf(tasks)

\* C6: when every id the allocator draws from is held by a stored task,
\* add_task_db fails with RuntimeError whatever the draws, and the store is
\* unchanged.
C6_Exhausted ==
    [][(AddReturned /\ IdsOf(tasks) = ID_MIN..ID_MAX)
       => (last'.exc = "RuntimeError" /\ tasks' = tasks)]_vars

C6_Witness ==
    /\ last.op = "add_task_db" /\ last.exc = "RuntimeError"
    /\ IdsOf(tasks) = ID_MIN..ID_MAX

\* C16: update_task_last_done(id, now) on a stored task leaves every other
\* task as it was, and every other task that was due is still returned by
\* tasks_due_now.
C16_OthersStayDue ==
    [][(/\ last'.op = "update_task_last_done"
        /\ last'.id \in IdsOf(tasks)
        /\ update_task_last_done(last'.id, now))
       => \A r \in tasks :
              r.id # last'.id
              => /\ r \in tasks'
                 /\ IsDue(r, now)
                    => /\ tasks_due_now(tasks', "", now').exc = "none"
                       /\ r.id \in DueIds(tasks', now')]_vars

\* the room filters given to the store
RoomFilters == {"", DefaultRoom, "Hall"}

\* C17: in every state, list_tasks_db returns the tasks in strictly ascending
\* id order, with and without a room filter, and tasks_due_now returns due
\* tasks of that list in strictly ascending id order.
C17_AscendingOrder ==
    \A room \in RoomFilters :
        LET rows == list_tasks_db(tasks, room)
            res == tasks_due_now(tasks, room, now)
        IN /\ \A i, j \in 1..Len(rows) : i < j => rows[i][1] < rows[j][1]
           /\ res.exc = "none"
           /\ \A i, j \in 1..Len(res.due) :
                  i < j => res.due[i][1] < res.due[j][1]
           /\ \A i \in 1..Len(res.due) :
                  \E k \in 1..Len(rows) : rows[k][1] = res.due[i][1]

\* C18: a call of update_task_field or update_task_last_done with an id that
\* no stored task holds does not return normally.
C18_NotFoundReported ==
    (/\ last.op \in {"update_task_field", "update_task_last_done"}
     /\ last.id \notin IdsOf(tasks))
    => last.exc # "none"

\* C21: after update_task_field(id, "frequency_days", f) on a stored task,
\* last_done is what it was, and tasks_due_now returns the task at the
\* current time if and only if last_done + f days is at or before it.
C21_DueFromStoredFields ==
    [][\A fv \in FieldInputs :
          (/\ last'.op = "update_task_field"
           /\ last'.id \in IdsOf(tasks)
           /\ update_task_field(last'.id, fv[1], fv[2]))
          => /\ RowOf(tasks', last'.id).last_done
                    = RowOf(tasks, last'.id).last_done
             /\ tasks_due_now(tasks', "", now').exc = "none"
             /\ last'.id \in DueIds(tasks', now')
                    <=> fromisoformat(RowOf(tasks, last'.id).last_done) + fv[2]
                           <= now']_vars

\* the rows a store can hold whose due time is a clock value of the model
DueInTime ==
    {r \in [id : randint, name : Names, frequency_days : Freqs,
            last_done : {isoformat(t) : t \in Times}, room : {DefaultRoom},
            notes : {DefaultNotes}, points : {DefaultPoints}] :
        fromisoformat(r.last_done) + r.frequency_days <= MaxTime}

\* the row r is stored as it is until tasks_due_now returns it
EntersDueSet(r) == (r \in tasks) ~> (r \notin tasks \/ r.id \in DueIds(tasks, now))

\* a task leaves the due set only by a mark-done, a frequency edit or a
\* removal of that task
LeavesDueSetByWrite ==
    [][\A task_id \in randint :
          (task_id \in DueIds(tasks, now) /\ task_id \notin DueIds(tasks', now'))
          => /\ last'.id = task_id
             /\ last'.op \in {"update_task_last_done", "update_task_field",
                              "remove_task_db"}
             /\ RowOf(tasks, task_id) \notin tasks'
             /\ now' = now]_vars

\* C30: while the clock advances, every stored task that is not marked done,
\* edited or removed is returned by tasks_due_now from some time on, and a
\* task that tasks_due_now returns stays returned until update_task_last_done,
\* update_task_field or remove_task_db is applied to it.
C30_EventuallyDue ==
    /\ \A r \in DueInTime : EntersDueSet(r)
    /\ LeavesDueSetByWrite

\* C22: the set of stored ids changes only by a successful add_task_db, which
\* adds the one id it was given, and by remove_task_db, which deletes the id
\* it names; update_task_field, update_task_last_done and the clock leave the
\* set of ids as it is, with one row for each id.
C22_IdsImmutable ==
    [][/\ IdsOf(tasks') =
             IF last' # last /\ last'.op = "add_task_db" /\ last'.exc = "none"
             THEN IdsOf(tasks) \cup {last'.id}
             ELSE IF last'.op = "remove_task_db"
             THEN IdsOf(tasks) \ {last'.id}
             ELSE IdsOf(tasks)
       /\ (last' # last /\ last'.op = "add_task_db" /\ last'.exc = "none")
              => last'.id \notin IdsOf(tasks)
       /\ Cardinality(tasks') = Cardinality(IdsOf(tasks'))]_vars

\* one of two stored tasks was marked done, and both are still stored
C22_Witness ==
    /\ last.op = "update_task_last_done" /\ last.id \in IdsOf(tasks)
    /\ Cardinality(tasks) >= 2
    /\ RowOf(tasks, last.id).last_done = isoformat(1)

\* C23: every run of _generate_unique_id ends within MaxAttempts (100) draws:
\* with an id that no stored task holds, or with RuntimeError after exactly
\* 100 draws; the error is possible exactly when some id of the draw range is
\* stored, whether or not free ids remain, and a free id is returned by some
\* run exactly when one remains.
C23_BoundedDraws ==
    LET runs == generate_unique_id(tasks)
        free == (ID_MIN..ID_MAX) \ IdsOf(tasks)
    IN /\ \A g \in runs :
              /\ g.draws \in 1..100
              /\ g.exc = "none" => g.id \in free
              /\ g.exc # "none" => (g.exc = "RuntimeError" /\ g.draws = 100)
       /\ (\E g \in runs : g.exc = "RuntimeError") <=> tasks # {}
       /\ {g.id : g \in {x \in runs : x.exc = "none"}} = free
       /\ (free # {} /\ tasks # {})
              => \E g \in runs : g.exc = "none" /\ g.draws = 100

\* add_task_db failed with RuntimeError although a free id remained
C23_Witness ==
    /\ last.op = "add_task_db" /\ last.exc = "RuntimeError"
    /\ tasks # {} /\ IdsOf(tasks) # ID_MIN..ID_MAX

----------------------------------------------------------------------------
(* Concurrent callers of the store: add_task_db is two statements on two   *)
(* connections, the SELECT of _generate_unique_id and the INSERT, and     *)
(* another caller's statement can run between them.  The statements are    *)
(* interleaved at one clock value.                                         *)

\* add_task_db up to the return of _generate_unique_id
add_task_db_generate(c, name, freq_days) ==
    /\ call[c].pc = "idle"
    /\ \E g \in Allocations(tasks) :
           IF g.exc = "none"
           THEN /\ call' = [call EXCEPT ![c] =
                               [pc |-> "insert", task_id |-> g.id,
                                name |-> name, freq_days |-> freq_days]]
                /\ UNCHANGED last
           ELSE /\ last' = [op |-> "add_task_db", id |-> g.id, exc |-> g.exc,
                            at |-> now]
                /\ UNCHANGED call
    /\ UNCHANGED <<completed_tasks, tasks, now, parseVars, botVars>>

\* add_task_db from the INSERT on
add_task_db_insert(c) ==
    /\ call[c].pc = "insert"
    /\ LET ins == InsertRow(tasks, NewRow(call[c].task_id, call[c].name,
                                          call[c].freq_days, DefaultRoom,
                                          DefaultNotes, DefaultPoints, now))
       IN /\ tasks' = ins.tasks
          /\ last' = [op |-> "add_task_db", id |-> call[c].task_id,
                      exc |-> ins.exc, at |-> now]
    /\ call' = [call EXCEPT ![c] = NoCall]
    /\ UNCHANGED <<completed_tasks, now, parseVars, botVars>>

NextConc ==
    \/ \E c \in Callers, name \in Names, freq_days \in Freqs :
           add_task_db_generate(c, name, freq_days)
    \/ \E c \in Callers : add_task_db_insert(c)
    \/ \E task_id \in randint : update_task_last_done(task_id, now)
    \/ \E task_id \in randint, fv \in FieldInputs :
           update_task_field(task_id, fv[1], fv[2])
    \/ \E task_id \in randint : remove_task_db(task_id)

SpecConc == Init /\ [][NextConc]_vars

\* C7: two concurrent add_task_db calls are never allocated the same id, and
\* no create fails because the id was taken between the check and the insert.
C7_AtomicAllocation ==
    /\ \A c1, c2 \in Callers :
           (c1 # c2 /\ call[c1].pc = "insert" /\ call[c2].pc = "insert")
           => call[c1].task_id # call[c2].task_id
    /\ ~(last.op = "add_task_db" /\ last.exc = "IntegrityError")

\* C8: in every state reached by any interleaving of creates, updates,
\* mark-done and removes, no two stored tasks have the same id.
C8_UniqueIds == \A r1, r2 \in tasks : r1.id = r2.id => r1 = r2

\* an insert with an id that a stored task holds was attempted and rejected
C8_Witness ==
    /\ last.op = "add_task_db" /\ last.exc = "IntegrityError"
    /\ last.id \in IdsOf(tasks)

----------------------------------------------------------------------------
(* The frequency parser on its own: a text is made and then parsed *)

\* str(n)
RECURSIVE str(_)
str(n) ==
    IF n < 10 THEN <<DigitChars[n + 1]>>
    ELSE str(n \div 10) \o <<DigitChars[(n % 10) + 1]>>

UpperChar(c) ==
    IF \E i \in 1..26 : LowerChars[i] = c
    THEN UpperChars[CHOOSE i \in 1..26 : LowerChars[i] = c]
    ELSE c

\* the word w in every letter case
CaseForms(w) ==
    {[i \in 1..Len(w) |-> IF i \in U THEN UpperChar(w[i]) ELSE w[i]] :
        U \in SUBSET (1..Len(w))}

WsRuns == UNION {[1..k -> Whitespace] : k \in 0..MaxWs}
PadsBefore == {<<>>, <<" ">>}
PadsAfter == {<<>>, <<"\t", "\n">>}
RawChars == {"0", "1", "d", "W", "x", "-", " "}
RawTexts == UNION {[1..k -> RawChars] : k \in 0..MaxRaw}
\* texts without a leading digit
WordTexts == {<<"a", "b", "c">>, <<"i", "n", "v", "a", "l", "i", "d">>}

\* a number alone, or a number, whitespace and a unit in some letter case,
\* with whitespace around
NumberTexts(n, unit) ==
    {p1 \o str(n) \o ws \o u \o p2 :
        p1 \in PadsBefore, p2 \in PadsAfter, u \in CaseForms(unit),
        ws \in IF unit = <<>> THEN {<<>>} ELSE WsRuns}

InitParse ==
    /\ tasks = {} /\ completed_tasks = <<>> /\ now = 0
    /\ last = [op |-> "init", id |-> 0, exc |-> "none", at |-> 0]
    /\ call = [c \in Callers |-> NoCall]
    /\ rooms = <<>> /\ IdleBot
    /\ parsed = NotParsed
    /\ \/ \E n \in 0..MaxN,
             unit \in {<<>>} \cup DayUnits \cup WeekUnits \cup MonthUnits :
             /\ form = [kind |-> "number", n |-> n, unit |-> unit]
             /\ text \in NumberTexts(n, unit)
       \/ /\ form = [kind |-> "raw", n |-> 0, unit |-> <<>>]
          /\ text \in RawTexts \cup WordTexts

Parse ==
    /\ parsed = NotParsed
    /\ parsed' = parse_frequency_to_days(text)
    /\ UNCHANGED <<storeVars, form, text, botVars>>

SpecParse == InitParse /\ [][Parse]_vars

\* C10: for every positive n, the parser returns n for the text of n alone
\* or followed by d, day or days, 7*n when followed by w, week or weeks and
\* 30*n when followed by m, month or months, whatever the letter case, the
\* whitespace between number and unit and the whitespace around.
C10_ParsesUnits ==
    (parsed # NotParsed /\ form.kind = "number" /\ form.n > 0)
    => parsed =
         [exc |-> "none",
          days |-> IF form.unit \in {<<>>, <<"d">>, <<"d", "a", "y">>,
                                     <<"d", "a", "y", "s">>}
                   THEN form.n
                   ELSE IF form.unit[1] = "w" THEN 7 * form.n
                   ELSE 30 * form.n]

\* a number of two digits followed by "months" with a capital M, with
\* whitespace in or around the text, was parsed
C10_Witness ==
    /\ parsed # NotParsed /\ form.kind = "number" /\ form.n >= 10
    /\ form.unit = <<"m", "o", "n", "t", "h", "s">>
    /\ Len(text) > Len(str(form.n)) + 7
    /\ \E i \in 1..Len(text) : text[i] = "M"

\* the accepted grammars: a run of digits alone, or a run of digits, optional
\* whitespace and one of the nine unit words, in any letter case and with
\* whitespace around
InGrammar(txt) ==
    LET s == strip(txt)
    IN \E nd \in 1..Len(s), nw \in 0..Len(s) :
           /\ nd + nw <= Len(s)
           /\ \A i \in 1..nd : s[i] \in Digit
           /\ \A i \in (nd + 1)..(nd + nw) : s[i] \in Whitespace
           /\ \/ nd = Len(s)
              \/ lower(SubSeq(s, nd + nw + 1, Len(s)))
                     \in DayUnits \cup WeekUnits \cup MonthUnits

\* C11: for every text that matches none of the accepted grammars, the empty
\* text, a text without leading digits, a negative number and a number
\* followed by an unknown unit among them, the parser raises ValueError and
\* returns no day count.
C11_ParseError ==
    (parsed # NotParsed /\ ~InGrammar(text))
    => parsed = [exc |-> "ValueError", days |-> 0]

\* every text the parser returns a day count for is in the grammar
C11_OnlyGrammar ==
    (parsed # NotParsed /\ parsed.exc = "none") => InGrammar(text)

\* a number followed by an unknown unit was rejected
C11_Witness ==
    /\ parsed.exc = "ValueError" /\ text = <<"1", "x">> /\ ~InGrammar(text)

----------------------------------------------------------------------------
(* The chat handlers.  Every handler is wrapped by restricted; a handler   *)
(* that raises, or returns None, leaves the conversation state alone.      *)
(* The messages are handled one at a time, at one clock value.             *)

\* what the users send
NameTexts == {<<" ", "m", "o", "p">>}
RoomTexts == {<<"h", "a", "l", "l">>, <<"a", "t", "t", "i", "c", " ">>}
FreqTexts == {<<"0">>, <<"2", "d">>, <<"x">>}
IdArgs == {<<>>, <<<<"x">>>>} \cup {<<str(i)>> : i \in randint}
\* the words after /tasks and /due
RoomArgs == {<<>>, <<<<"A", "t", "t", "i", "c">>>>, <<<<"H", "A", "L", "L">>>>}
\* rooms.txt: absent, or the line "Hall " and an empty line
RoomFiles == {<<>>, <<<<"H", "a", "l", "l", " ">>, <<>>>>}

\* mutant: nobody is turned away
Allowed_Anyone(u) == TRUE

\* restricted: the lower-cased username is looked up in ALLOWED_USERS
Allowed(u) == lower(Username[u]) \in ALLOWED_USERS

Say(u, msg) == [to |-> u, msg |-> msg, exc |-> "none"]
Raised(u, exc) == [to |-> u, msg |-> "", exc |-> exc]

AccessDenied(u) ==
    /\ reply' = Say(u, "Access denied.")
    /\ UNCHANGED <<storeVars, parseVars, rooms, conv, user_data>>

\* config.get_rooms
RECURSIVE StripLines(_)
StripLines(lines) ==
    IF lines = <<>> THEN <<>>
    ELSE (IF strip(Head(lines)) # <<>> THEN <<strip(Head(lines))>> ELSE <<>>)
         \o StripLines(Tail(lines))

get_rooms == StripLines(rooms)

\* mutant: the room is kept as it was typed
MatchRoom_AsTyped(rs, room_txt) ==
    [found |-> \E i \in 1..Len(rs) : lower(rs[i]) = lower(room_txt),
     room |-> room_txt]

\* the loop that looks the room text up, case-insensitively
MatchRoom(rs, room_txt) ==
    LET hits == {i \in 1..Len(rs) : lower(rs[i]) = lower(room_txt)}
    IN IF hits = {} THEN [found |-> FALSE, room |-> <<>>]
       ELSE [found |-> TRUE,
             room |-> rs[CHOOSE i \in hits : \A j \in hits : i <= j]]

\* context.user_data[key] = value, and .pop(key, None)
Put(d, key, value) ==
    [k \in DOMAIN d \cup {key} |-> IF k = key THEN value ELSE d[k]]
Pop(d, keys) == [k \in DOMAIN d \ keys |-> d[k]]

\* int(text) of a command argument
IntOf(t) ==
    IF FullMatchDigits(t) THEN [exc |-> "none", val |-> int(t)]
    ELSE IF Len(t) > 1 /\ t[1] \in {"-", "+"} /\ FullMatchDigits(Tail(t))
    THEN [exc |-> "none",
          val |-> IF t[1] = "-" THEN 0 - int(Tail(t)) ELSE int(Tail(t))]
    ELSE [exc |-> "ValueError", val |-> 0]

\* utils.format_task_row: the row is unpacked into UnpackArity names
format_task_row(row) ==
    IF Len(row) # UnpackArity
    THEN [exc |-> "ValueError", line |-> <<>>]
    ELSE [exc |-> "none",
          line |-> <<row[1], row[2], row[5], row[3],
                     next_due_text(row[4], row[3])[2], row[6]>>]

\* "for r in rows: lines.append(format_task_row(r))"
FormatRows(rows) ==
    IF \E i \in 1..Len(rows) : format_task_row(rows[i]).exc # "none"
    THEN "ValueError" ELSE "none"

\* the results of add_task_db(name, freq_days, room) on table T at time t
AddResults(T, name, freq_days, room, t) ==
    {LET ins == InsertRow(T, NewRow(g.id, name, freq_days, room, DefaultNotes,
                                    DefaultPoints, t))
     IN [exc |-> IF g.exc = "none" THEN ins.exc ELSE g.exc,
         tasks |-> IF g.exc = "none" THEN ins.tasks ELSE T] :
        g \in Allocations(T)}

\* /addtask
addtask_start(u) ==
    /\ conv[u].add = "END"
    /\ IF ~Allowed(u) THEN AccessDenied(u)
       ELSE /\ conv' = [conv EXCEPT ![u].add = "ADD_NAME"]
            /\ reply' = Say(u, "What's the task name?")
            /\ UNCHANGED <<storeVars, parseVars, rooms, user_data>>

addtask_name(u, msg) ==
    /\ conv[u].add = "ADD_NAME"
    /\ IF ~Allowed(u) THEN AccessDenied(u)
       ELSE /\ user_data' = [user_data EXCEPT
                               ![UserOf(u)] = Put(@, "new_task_name",
                                               strip(msg))]
            /\ conv' = [conv EXCEPT ![u].add = "ADD_ROOM"]
            /\ reply' = Say(u, "Which room?")
            /\ UNCHANGED <<storeVars, parseVars, rooms>>

addtask_room(u, msg) ==
    /\ conv[u].add = "ADD_ROOM"
    /\ IF ~Allowed(u) THEN AccessDenied(u)
       ELSE LET room_txt == strip(msg)
                rs == get_rooms
                matched_room == MatchRoom(rs, room_txt)
            IN IF rs # <<>> /\ ~matched_room.found
               THEN /\ reply' = Say(u, "Unknown room.")
                    /\ UNCHANGED <<storeVars, parseVars, rooms, conv,
                                   user_data>>
               ELSE /\ user_data' =
                          [user_data EXCEPT
                              ![UserOf(u)] = Put(@, "new_task_room",
                                         IF matched_room.found
                                         THEN matched_room.room
                                         ELSE room_txt)]
                    /\ conv' = [conv EXCEPT ![u].add = "ADD_FREQ"]
                    /\ reply' = Say(u, "How often?")
                    /\ UNCHANGED <<storeVars, parseVars, rooms>>

addtask_freq(u, msg) ==
    /\ conv[u].add = "ADD_FREQ"
    /\ IF ~Allowed(u) THEN AccessDenied(u)
       ELSE LET freq == parse_frequency_to_days(strip(msg))
                d == user_data[UserOf(u)]
            IN IF freq.exc # "none"
               THEN /\ reply' = Say(u, "I couldn't parse that.")
                    /\ conv' = [conv EXCEPT ![u].add = "END"]
                    /\ UNCHANGED <<storeVars, parseVars, rooms, user_data>>
               ELSE IF {"new_task_name", "new_task_room"} \subseteq DOMAIN d
               THEN \E res \in AddResults(tasks, d["new_task_name"],
                                          freq.days, d["new_task_room"], now) :
                        /\ tasks' = res.tasks
                        /\ IF res.exc = "none"
                           THEN /\ reply' = Say(u, "Added")
                                /\ user_data' =
                                      [user_data EXCEPT
                                          ![UserOf(u)] =
                                              Pop(@, {"new_task_name",
                                                      "new_task_room"})]
                                /\ conv' = [conv EXCEPT ![u].add = "END"]
                           ELSE /\ reply' = Raised(u, res.exc)
                                /\ UNCHANGED <<conv, user_data>>
                        /\ UNCHANGED <<completed_tasks, now, last, call,
                                       parseVars, rooms>>
               \* name or room is None: the NOT NULL columns reject the row
               ELSE /\ reply' = Raised(u, IF Allocations(tasks) =
                                             {[exc |-> "RuntimeError",
                                               id |-> 0]}
                                          THEN "RuntimeError"
                                          ELSE "IntegrityError")
                    /\ UNCHANGED <<storeVars, parseVars, rooms, conv,
                                   user_data>>

\* mutant: /cancel starts the add dialogue over
cancel_Restart(u) ==
    /\ \E k \in {"add", "done", "edit"} : conv[u][k] # "END"
    /\ IF ~Allowed(u) THEN AccessDenied(u)
       ELSE /\ conv' = [conv EXCEPT ![u].add = "ADD_NAME"]
            /\ reply' = Say(u, "Cancelled.")
            /\ UNCHANGED <<storeVars, parseVars, rooms, user_data>>

\* /cancel: the fallback of the first conversation the user is in
cancel(u) ==
    /\ \E k \in {"add", "done", "edit"} : conv[u][k] # "END"
    /\ IF ~Allowed(u) THEN AccessDenied(u)
       ELSE /\ conv' = [conv EXCEPT
                           ![u] = IF @.add # "END" THEN [@ EXCEPT !.add = "END"]
                                  ELSE IF @.done # "END"
                                  THEN [@ EXCEPT !.done = "END"]
                                  ELSE [@ EXCEPT !.edit = "END"]]
            /\ reply' = Say(u, "Cancelled.")
            /\ UNCHANGED <<storeVars, parseVars, rooms, user_data>>

\* /done [id]
done_start(u, args) ==
    /\ conv[u].done = "END"
    /\ IF ~Allowed(u) THEN AccessDenied(u)
       ELSE IF args # <<>>
       THEN LET tid == IntOf(args[1])
            IN IF tid.exc # "none"
               THEN /\ reply' = Say(u, "Usage: /done <id>")
                    /\ UNCHANGED <<storeVars, parseVars, rooms, conv,
                                   user_data>>
               ELSE IF get_task_db(tasks, tid.val) = <<>>
               THEN /\ reply' = Say(u, "No task with id")
                    /\ UNCHANGED <<storeVars, parseVars, rooms, conv,
                                   user_data>>
               ELSE /\ tasks' = SetLastDone(tasks, tid.val, now)
                    /\ reply' = Say(u, "Marked done")
                    /\ UNCHANGED <<completed_tasks, now, last, call, parseVars,
                                   rooms, conv, user_data>>
       ELSE LET rows == list_tasks_db(tasks, "")
            IN /\ IF rows = <<>>
                  THEN /\ reply' = Say(u, "No tasks to mark done.")
                       /\ conv' = [conv EXCEPT ![u].done = "END"]
                  ELSE IF FormatRows(rows) # "none"
                  THEN /\ reply' = Raised(u, FormatRows(rows))
                       /\ UNCHANGED conv
                  ELSE /\ reply' = Say(u, "Which task id to mark done?")
                       /\ conv' = [conv EXCEPT ![u].done = "DONE_WAIT_ID"]
               /\ UNCHANGED <<storeVars, parseVars, rooms, user_data>>

\* " ".join(args)
RECURSIVE JoinSpace(_)
JoinSpace(args) ==
    IF args = <<>> THEN <<>>
    ELSE IF Len(args) = 1 THEN args[1]
    ELSE args[1] \o <<" ">> \o JoinSpace(Tail(args))

\* a reply that lists tasks, by their ids
SayRows(u, msg, ids) == [to |-> u, msg |-> msg, exc |-> "none", ids |-> ids]

\* /tasks [room]
tasks_cmd(u, args) ==
    IF ~Allowed(u) THEN AccessDenied(u)
    ELSE LET room_arg == JoinSpace(args)
             matched == MatchRoom(get_rooms, room_arg)
             room_filter == IF args # <<>> /\ matched.found
                            THEN matched.room ELSE ""
             rows == list_tasks_db(tasks, room_filter)
         IN /\ IF args # <<>> /\ room_filter = ""
               THEN reply' = Say(u, "Unknown room")
               ELSE IF rows = <<>>
               THEN reply' = Say(u, IF room_filter # "" THEN "No tasks in"
                                    ELSE "No tasks yet.")
               ELSE IF FormatRows(rows) # "none"
               THEN reply' = Raised(u, FormatRows(rows))
               ELSE reply' = SayRows(u, IF room_filter # "" THEN "Tasks in"
                                        ELSE "Your cleaning tasks",
                                     [i \in 1..Len(rows) |-> rows[i][1]])
            /\ UNCHANGED <<storeVars, parseVars, rooms, conv, user_data>>

\* /due [room]
due_cmd(u, args) ==
    IF ~Allowed(u) THEN AccessDenied(u)
    ELSE LET room_arg == JoinSpace(args)
             matched == MatchRoom(get_rooms, room_arg)
             room_filter == IF args # <<>> /\ matched.found
                            THEN matched.room ELSE ""
             res == tasks_due_now(tasks, room_filter, now)
         IN /\ IF args # <<>> /\ room_filter = ""
               THEN reply' = Say(u, "Unknown room")
               ELSE IF res.exc # "none"
               THEN reply' = Raised(u, res.exc)
               ELSE IF res.due = <<>>
               THEN reply' = Say(u, IF room_filter # "" THEN "No tasks due in"
                                    ELSE "No tasks are due right now.")
               ELSE reply' = SayRows(u, IF room_filter # "" THEN "Tasks due in"
                                        ELSE "Tasks to do now",
                                     [i \in 1..Len(res.due) |-> res.due[i][1]])
            /\ UNCHANGED <<storeVars, parseVars, rooms, conv, user_data>>

\* /remove [id]
remove_cmd(u, args) ==
    IF ~Allowed(u) THEN AccessDenied(u)
    ELSE IF args = <<>>
    THEN /\ reply' = Say(u, "Usage: /remove <id>")
         /\ UNCHANGED <<storeVars, parseVars, rooms, conv, user_data>>
    ELSE LET tid == IntOf(args[1])
         IN IF tid.exc # "none"
            THEN /\ reply' = Say(u, "Id must be a number.")
                 /\ UNCHANGED <<storeVars, parseVars, rooms, conv, user_data>>
            ELSE IF get_task_db(tasks, tid.val) = <<>>
            THEN /\ reply' = Say(u, "No task with id")
                 /\ UNCHANGED <<storeVars, parseVars, rooms, conv, user_data>>
            ELSE /\ tasks' = DeleteRow(tasks, tid.val)
                 /\ reply' = Say(u, "Removed task")
                 /\ UNCHANGED <<completed_tasks, now, last, call, parseVars,
                                rooms, conv, user_data>>

\* /edit
edit_start(u) ==
    /\ conv[u].edit = "END"
    /\ IF ~Allowed(u) THEN AccessDenied(u)
       ELSE LET rows == list_tasks_db(tasks, "")
            IN /\ IF rows = <<>>
                  THEN /\ reply' = Say(u, "No tasks to edit.")
                       /\ conv' = [conv EXCEPT ![u].edit = "END"]
                  ELSE IF FormatRows(rows) # "none"
                  THEN /\ reply' = Raised(u, FormatRows(rows))
                       /\ UNCHANGED conv
                  ELSE /\ reply' = Say(u, "Which task id to edit?")
                       /\ conv' = [conv EXCEPT ![u].edit = "EDIT_SELECT"]
               /\ UNCHANGED <<storeVars, parseVars, rooms, user_data>>

InitBot ==
    /\ tasks = {} /\ completed_tasks = <<>> /\ now = 0
    /\ last = [op |-> "init", id |-> 0, exc |-> "none", at |-> 0]
    /\ call = [c \in Callers |-> NoCall]
    /\ form = NoForm /\ text = <<>> /\ parsed = NotParsed
    /\ rooms \in RoomFiles
    /\ IdleBot

NextBot ==
    \/ \E u \in Users : addtask_start(u)
    \/ \E u \in Users, msg \in NameTexts : addtask_name(u, msg)
    \/ \E u \in Users, msg \in RoomTexts : addtask_room(u, msg)
    \/ \E u \in Users, msg \in FreqTexts : addtask_freq(u, msg)
    \/ \E u \in Users : cancel(u)
    \/ \E u \in Users, args \in IdArgs : done_start(u, args)
    \/ \E u \in Users, args \in IdArgs : remove_cmd(u, args)
    \/ \E u \in Users : edit_start(u)
    \/ \E u \in Users, args \in RoomArgs : tasks_cmd(u, args)
    \/ \E u \in Users, args \in RoomArgs : due_cmd(u, args)

SpecBot == InitBot /\ [][NextBot]_vars

\* C9: in every state reached through the add-task and edit dialogues, every
\* stored task has frequency_days > 0.
C9_PositiveFrequency == \A r \in tasks : r.frequency_days > 0

\* the ids of the tasks a reply lists
RepliedIds(rp) ==
    IF rp.msg \in {"Tasks in", "Tasks due in"}
    THEN {rp.ids[i] : i \in 1..Len(rp.ids)} ELSE {}

\* C19: /due <room> from an allowed user lists exactly the due tasks whose
\* stored room equals the text after the command, compared without regard
\* to letter case, whatever the store and rooms.txt hold; /tasks <room> does
\* the same for all stored tasks.
C19_RoomFilter ==
    [][\A u \in Users, args \in RoomArgs :
          (Allowed(u) /\ args # <<>>)
          => LET InRoom(r) == lower(r.room) = lower(JoinSpace(args))
             IN /\ due_cmd(u, args)
                   => /\ reply'.exc = "none"
                      /\ RepliedIds(reply') =
                             {r.id : r \in {x \in tasks :
                                              InRoom(x) /\ IsDue(x, now)}}
                /\ tasks_cmd(u, args)
                   => /\ reply'.exc = "none"
                      /\ RepliedIds(reply') =
                             {r.id : r \in {x \in tasks : InRoom(x)}}]_vars

\* the /done command with the id of a stored task answered "Marked done"
MarkedDone == reply'.msg = "Marked done"

\* C14: every successful mark-done event appends exactly one completion
\* record with the user's name, the task id, the task's name at that time and
\* the task's points, and no other step appends or removes a record, so that
\* the number of records is the number of successful mark-done events.
C14_RecordPerDone ==
    [][IF MarkedDone
       THEN /\ Len(completed_tasks') = Len(completed_tasks) + 1
            /\ SubSeq(completed_tasks', 1, Len(completed_tasks))
                   = completed_tasks
            /\ LET rec == completed_tasks'[Len(completed_tasks')]
               IN /\ rec.username = Username[reply'.to]
                  /\ \E r \in tasks :
                         /\ rec.task_id = r.id
                         /\ rec.task_name = r.name
                         /\ rec.points_earned = r.points
       ELSE completed_tasks' = completed_tasks]_vars

AddRank(st) ==
    IF st = "ADD_NAME" THEN 1 ELSE IF st = "ADD_ROOM" THEN 2
    ELSE IF st = "ADD_FREQ" THEN 3 ELSE 4

\* the user with key u sends the text msg while in the add dialogue
TextMessage(u, msg) ==
    \/ addtask_name(u, msg) \/ addtask_room(u, msg) \/ addtask_freq(u, msg)

DialogueTexts == NameTexts \cup RoomTexts \cup FreqTexts

\* the state of an add dialogue changes only forward, to END, or from END to
\* ADD_NAME at /addtask
NeverBackward(u) ==
    conv'[u].add # conv[u].add
    => \/ conv[u].add = "END" /\ conv'[u].add = "ADD_NAME"
       \/ conv[u].add # "END" /\ AddRank(conv'[u].add) > AddRank(conv[u].add)

\* a task is created only by the step that leaves ADD_FREQ
CreatedOnlyAtEnd ==
    IdsOf(tasks') \ IdsOf(tasks) # {}
    => \E u \in Users : conv[u].add = "ADD_FREQ" /\ conv'[u].add = "END"

\* C25 as stated: every text sent to an add dialogue moves it strictly
\* forward or ends it, no message leaves it in the same state or moves it
\* backward, and a task is created only by the transition out of
\* awaiting-frequency.
C25_StrictlyForward ==
    [][/\ \A u \in Users :
             /\ NeverBackward(u)
             /\ \A msg \in DialogueTexts :
                    (/\ conv[u].add # "END" /\ reply'.to = u
                     /\ TextMessage(u, msg))
                    => AddRank(conv'[u].add) > AddRank(conv[u].add)
       /\ CreatedOnlyAtEnd]_vars

\* the room text matches no line of a non-empty rooms.txt
NoSuchRoom(msg) ==
    /\ get_rooms # <<>>
    /\ \A i \in 1..Len(get_rooms) : lower(get_rooms[i]) # lower(strip(msg))

\* C25: every text sent to an add dialogue moves it strictly forward or ends
\* it, with two exceptions that leave it where it is and store nothing: a
\* room text that matches no entry of a non-empty allow-list, and a last step
\* whose add_task_db raises; the dialogue never moves backward, and a task is
\* created only by the transition out of awaiting-frequency.
C25_ForwardOrRetry ==
    [][/\ \A u \in Users :
             /\ NeverBackward(u)
             /\ \A msg \in DialogueTexts :
                    (/\ conv[u].add # "END" /\ reply'.to = u
                     /\ TextMessage(u, msg))
                    => IF conv[u].add = "ADD_ROOM" /\ NoSuchRoom(msg)
                       THEN /\ conv'[u].add = "ADD_ROOM"
                            /\ reply' = Say(u, "Unknown room.")
                            /\ UNCHANGED <<tasks, user_data>>
                       ELSE IF conv[u].add = "ADD_FREQ" /\ reply'.exc # "none"
                       THEN /\ conv'[u].add = "ADD_FREQ"
                            /\ reply'.exc \in {"RuntimeError", "IntegrityError"}
                            /\ UNCHANGED <<tasks, user_data>>
                       ELSE AddRank(conv'[u].add) > AddRank(conv[u].add)
       /\ CreatedOnlyAtEnd]_vars

\* an unknown room left the dialogue waiting for the room
C25_Witness ==
    /\ reply.msg = "Unknown room."
    /\ conv[reply.to].add = "ADD_ROOM"
    /\ tasks # {}

C28_DeniedChangesNothing ==
    [][\A u \in {"eve", "mia"} :
          reply'.to = u
          => /\ reply' = Say(u, "Access denied.")
             /\ UNCHANGED <<tasks, completed_tasks, conv, user_data, rooms>>]_vars

\* a user without username was turned away while an allowed user was in the
\* add dialogue over a non-empty store
C28_Witness ==
    /\ reply = Say("eve", "Access denied.")
    /\ tasks # {}
    /\ conv["ann"].add = "ADD_FREQ"

\* C29: tasks_due_now and format_task_row go through every stored row
\* without raising, the number of names a row is unpacked into being the
\* number of columns list_tasks_db returns, so that no command of the bot is
\* answered by a ValueError.
C29_RowsUnpack ==
    LET rows == list_tasks_db(tasks, "")
    IN /\ \A i \in 1..Len(rows) : Len(rows[i]) = UnpackArity
       /\ tasks_due_now(tasks, "", now).exc = "none"
       /\ FormatRows(rows) = "none"
       /\ reply.exc # "ValueError"

----------------------------------------------------------------------------
(* Add dialogues in several chats: ann in two chats and bob in one.  Each   *)
(* key sends its own name and room, and rooms.txt is absent.                *)

NameOf(k) ==
    IF k = "ann" THEN <<"m", "o", "p">>
    ELSE IF k = "ann2" THEN <<"r", "u", "g">> ELSE <<"t", "u", "b">>
RoomOf(k) ==
    IF k = "ann" THEN <<"h", "a", "l", "l">>
    ELSE IF k = "ann2" THEN <<"a", "t", "t", "i", "c">> ELSE <<"d", "e", "n">>
ChatFreqTexts == {<<"2", "d">>}

InitChats == InitBot /\ rooms = <<>>

NextChats ==
    \/ \E k \in ChatKeys : addtask_start(k)
    \/ \E k \in ChatKeys : addtask_name(k, NameOf(k))
    \/ \E k \in ChatKeys : addtask_room(k, RoomOf(k))
    \/ \E k \in ChatKeys, msg \in ChatFreqTexts : addtask_freq(k, msg)
    \/ \E k \in ChatKeys : cancel(k)

SpecChats == InitChats /\ [][NextChats]_vars

\* the dialogue with key k ended by adding a task
AddedBy(k) ==
    /\ conv[k].add = "ADD_FREQ" /\ conv'[k].add = "END"
    /\ reply' = Say(k, "Added")

\* the task added carries the name and the room that were sent with key k
CarriesOwnTexts(k) ==
    \E r \in tasks' \ tasks : r.name = NameOf(k) /\ r.room = RoomOf(k)

\* C27: under every interleaving of add dialogues, of two users or of one
\* user in two chats, the task a dialogue creates carries the name and the
\* room that were entered in that same dialogue.
C27_OwnNameAndRoom ==
    [][\A k \in ChatKeys : AddedBy(k) => CarriesOwnTexts(k)]_vars

\* the part of C27 about different users: bob has one chat
C27_OtherUser ==
    [][AddedBy("bob") => CarriesOwnTexts("bob")]_vars

----------------------------------------------------------------------------
(* The field updates of the store on their own: tasks are created with one *)
(* frequency and then edited, each column to a value of its declared type. *)

FieldArgs ==
    {<<"name", "Mop">>, <<"frequency_days", 2>>, <<"room", "Hall">>,
     <<"notes", "wet">>, <<"points", 2>>,
     <<"id", ID_MIN>>, <<"last_done", isoformat(1)>>}

NextField ==
    \/ \E name \in Names : add_task_db(name, 1)
    \/ \E task_id \in randint, fv \in FieldArgs :
           update_task_field(task_id, fv[1], fv[2])

SpecField == Init /\ [][NextField]_vars

\* the position of a column in the tuple get_task_db returns
ColumnOf(field) ==
    CASE field = "id" -> 1 [] field = "name" -> 2
      [] field = "frequency_days" -> 3 [] field = "last_done" -> 4
      [] field = "room" -> 5 [] field = "notes" -> 6 [] field = "points" -> 7

C13_InvalidField ==
    [][\A fv \in FieldArgs :
          (/\ last'.op = "update_task_field"
           /\ fv[1] \notin {"name", "frequency_days", "room", "notes", "points"}
           /\ update_task_field(last'.id, fv[1], fv[2]))
          => (last'.exc = "ValueError" /\ tasks' = tasks)]_vars

\* an update of a stored task with an invalid field name was refused
C13_Witness ==
    /\ last.op = "update_task_field" /\ last.exc = "ValueError"
    /\ last.id \in IdsOf(tasks)

----------------------------------------------------------------------------
(* The scoring ledger on its own: completions are recorded as the clock    *)
(* advances, and the points are summed over a time window.                 *)

\* the most completion records written
MaxRecords == 3

LedgerUsers == {"ann", "bob"}
LedgerPoints == {1, 2}

\* the order of two ISO texts of the same format, as TEXT values
TextGeq(a, b) == a[2] >= b[2]

\* INSERT INTO completed_tasks ...: id is AUTOINCREMENT
RecordRow(C, username, task_id, task_name, points, t) ==
    Append(C, [id |-> Len(C) + 1, username |-> username, task_id |-> task_id,
               task_name |-> task_name, points_earned |-> points,
               completed_at |-> isoformat(t)])

record_task_completion(username, task_id, task_name, points) ==
    /\ Len(completed_tasks) < MaxRecords
    /\ completed_tasks' =
           RecordRow(completed_tasks, username, task_id, task_name, points, now)
    /\ last' = [op |-> "record_task_completion", id |-> task_id,
                exc |-> "none", at |-> now]
    /\ UNCHANGED <<tasks, now, call, parseVars, botVars>>

\* SUM(points_earned) over the rows of the index set S
RECURSIVE SumPoints(_, _)
SumPoints(C, S) ==
    IF S = {} THEN 0
    ELSE LET i == CHOOSE x \in S : TRUE
         IN C[i].points_earned + SumPoints(C, S \ {i})

\* mutant: rows completed at the threshold are left out
get_weekly_points_After(C, since_iso) ==
    LET sel == {i \in 1..Len(C) :
                   TextGeq(C[i].completed_at, since_iso)
                   /\ C[i].completed_at # since_iso}
        names == {C[i].username : i \in sel}
        total == [u \in names |->
                     SumPoints(C, {i \in sel : C[i].username = u})]
    IN {[k \in 1..Cardinality(names) |-> <<q[k], total[q[k]]>>] :
           q \in {f \in [1..Cardinality(names) -> names] :
                     /\ \A j, k \in DOMAIN f : j # k => f[j] # f[k]
                     /\ \A j, k \in DOMAIN f :
                            j < k => total[f[j]] >= total[f[k]]}}

\* get_weekly_points: the row lists the query may return; rows with equal
\* totals come in an order the query does not fix
get_weekly_points(C, since_iso) ==
    LET sel == {i \in 1..Len(C) : TextGeq(C[i].completed_at, since_iso)}
        names == {C[i].username : i \in sel}
        total == [u \in names |->
                     SumPoints(C, {i \in sel : C[i].username = u})]
    IN {[k \in 1..Cardinality(names) |-> <<q[k], total[q[k]]>>] :
           q \in {f \in [1..Cardinality(names) -> names] :
                     /\ \A j, k \in DOMAIN f : j # k => f[j] # f[k]
                     /\ \A j, k \in DOMAIN f :
                            j < k => total[f[j]] >= total[f[k]]}}

NextLedger ==
    \/ Tick
    \/ \E username \in LedgerUsers, points \in LedgerPoints :
           record_task_completion(username, ID_MIN, "Vacuum", points)

SpecLedger == Init /\ [][NextLedger]_vars

\* the points of the records of user u completed at or after day since,
\* added up record by record over the first n records
RECURSIVE PointsSince(_, _, _)
PointsSince(u, since, n) ==
    IF n = 0 THEN 0
    ELSE PointsSince(u, since, n - 1)
         + (IF /\ completed_tasks[n].username = u
               /\ fromisoformat(completed_tasks[n].completed_at) >= since
            THEN completed_tasks[n].points_earned ELSE 0)

Counted(u, since) ==
    \E n \in 1..Len(completed_tasks) :
        /\ completed_tasks[n].username = u
        /\ fromisoformat(completed_tasks[n].completed_at) >= since

\* C15: for every threshold, get_weekly_points returns one entry for each
\* username with a record completed at or after the threshold and for no
\* other, the entry's total is the sum of the points of exactly those
\* records, and the entries are in descending order of total.
C15_WeeklyPoints ==
    \A since \in Times :
        \A rows \in get_weekly_points(completed_tasks, isoformat(since)) :
            /\ {rows[k][1] : k \in DOMAIN rows}
                  = {u \in LedgerUsers : Counted(u, since)}
            /\ \A j, k \in DOMAIN rows : j # k => rows[j][1] # rows[k][1]
            /\ \A k \in DOMAIN rows :
                   rows[k][2] =
                       PointsSince(rows[k][1], since, Len(completed_tasks))
            /\ \A j, k \in DOMAIN rows : j < k => rows[j][2] >= rows[k][2]
            /\ get_weekly_points(completed_tasks, isoformat(since)) # {}

\* for some threshold a user has a record before it, which is left out, and
\* a record at it, which is counted, and another user has a larger total
C15_Witness ==
    \E since \in Times :
        \E rows \in get_weekly_points(completed_tasks, isoformat(since)) :
            /\ Len(rows) = 2 /\ rows[1][2] > rows[2][2]
            /\ \E m, n \in 1..Len(completed_tasks) :
                   /\ completed_tasks[m].username = rows[2][1]
                   /\ completed_tasks[n].username = rows[2][1]
                   /\ fromisoformat(completed_tasks[m].completed_at) < since
                   /\ fromisoformat(completed_tasks[n].completed_at) = since

----------------------------------------------------------------------------
(* The creation of tasks on its own: tasks are added with every argument   *)
(* given, and removed.                                                     *)

AddRooms == {DefaultRoom, "Hall"}
AddNotes == {DefaultNotes, "wet"}
AddPoints == {DefaultPoints, 2}

NextAdd ==
    \/ \E name \in Names, room \in AddRooms, notes \in AddNotes,
          points \in AddPoints :
           add_task_db_all(name, 2, room, notes, points)
    \/ \E task_id \in randint : remove_task_db(task_id)

SpecAdd == Init /\ [][NextAdd]_vars

====
